---- MODULE Spec2Model ----
(***************************************************************************)
(* Delivery pipeline of internoti: QueueManager (bot/queueManager.ts, the  *)
(* variant that consults the message store) and MessageStore               *)
(* (db/messageStore.ts).  Time is in milliseconds, as Date.now() is, and   *)
(* every timestamp t of the program is held relative to the clock, as      *)
(* max(0, t - Date.now()): the program only compares its timestamps with   *)
(* Date.now() and subtracts Date.now() from them.  The timestamps of the   *)
(* store's rows are kept as they are written, on a clock of their own      *)
(* (storeNow) whose step is half the retention window; the queue's timers  *)
(* all run within one step of it.                                          *)
(*                                                                         *)
(* Specifications: Spec (the queue and the destination), SpecStore (the    *)
(* store with its cleanup timer), SpecNotify (events of every author type  *)
(* and user preferences), SpecRestart (a restart of the process on the     *)
(* same database), SpecEvents (provider events through the normalizer),    *)
(* SpecThrown (a send that can reject with a value that is no Error),      *)
(* SpecDirect (the direct webhook endpoint of directWebhookServer.ts),     *)
(* SpecInbound (the endpoint beside the normalizer), SpecPoll (the polling *)
(* transport of webhookServer.ts) and SpecSanitize (the sanitizer of       *)
(* utils/sanitizer.ts on message bodies around the maximum length);        *)
(* SpecRetention is the queue in front of the store with its cleanup, and  *)
(* SpecBot the queue under the connect and disconnect of TelegramBot.      *)
(***************************************************************************)
EXTENDS Integers, Sequences, FiniteSets, Bags, TLC

\* ---------------------------------------------------------------- bounds
NumIds == 2          \* message ids are 1..NumIds
MaxEnqueue == 3      \* calls of queueMessage in one behaviour
MaxSends == 4        \* calls of bot.sendMessage in one behaviour
MaxWaitSeconds == 1  \* largest "retry after" the destination answers
MaxWake == 2         \* wake-up timers pending at one time
MaxDrains == 2       \* executions of processQueue that can be suspended at one time
MaxStoreTicks == 4   \* steps of the store's clock in one behaviour
MaxEmit == 2         \* webhook_event emissions of the direct endpoint in one behaviour
MaxRequests == 2     \* requests webhook.site receives in one behaviour
MaxPolls == 3        \* polls of webhook.site started in one behaviour
MaxRuns == 3         \* runs of equal characters in one message body
MaxBotCalls == 3     \* calls of connect and disconnect in one behaviour

\* ------------------------------------------------------ program constants
MAX_RETRIES == 3
RETRY_DELAY == 1000
QUEUE_CHECK_INTERVAL == 1000
MsPerSecond == 1000
CLEANUP_INTERVAL == 604800000
PROCESSED_KEEP == 1000
MAX_MESSAGE_LENGTH == 3000

MsgIds == 1..NumIds
Drains == 1..MaxDrains
ClockStep == MsPerSecond
UserTypes == {"user", "contact", "admin", "lead"}
MessageTypes == {"NEW_CONVERSATION", "NEW_MESSAGE", "SYSTEM"}
UserIds == {1, 2}
\* the retention window is two steps of the store's clock
StoreClockStep == CLEANUP_INTERVAL \div 2

VARIABLES
  messageQueue,     \* QueueManager.messageQueue: sequence of QueueItem
  processingQueue,  \* QueueManager.processingQueue
  drains,           \* the suspended executions of processQueue
  wakeups,          \* bag of the times left of the setTimeout(() => processQueue()) timers
  timerOn,          \* startProcessor has set an interval timer
  timerLeft,        \* bag of the times left to the next tick of the interval timers
  sent_messages,    \* rows of table sent_messages
  attempts,         \* history: the calls of bot.sendMessage, in order
  nCalls,           \* history: number of calls of queueMessage
  quietLeft,        \* history: time left of the longest wait a RateLimited answer asked for
  idsSeen,          \* history: number of distinct ids handed to queueMessage
  storeNow,         \* Date.now() as the store's retention sees it, in steps of StoreClockStep
  cleanupLeft,      \* time left to the next run of the store's cleanup timer
  user_preferences, \* rows of table user_preferences
  storeLog,         \* history: the last call of the store made by StoreMarkAsSent or Cleanup
  chatType,         \* the author type (ChatMessage.type) of the message with each id
  restartLog,       \* history: what the process that ran before the restart left behind
  processUp,        \* the node process runs
  eventLog,         \* history: how the last webhook_event was handled
  httpLog,          \* history: the last request to POST /webhook and its answer
  webhookEvents,    \* history: the webhook_event emissions of the transports, in order
  processedEvents,  \* WebhookServer.processedEvents, in insertion order
  lastTokenId,      \* WebhookServer.lastTokenId, 0 for null
  inbox,            \* the requests webhook.site holds, oldest first
  polls,            \* bag of the requests to webhook.site that wait for their response
  pollLog,          \* history: the polls started and answered, and the last response
  raw,              \* raw.message, the body handed to sanitizeIntercomMessage
  sanitized,        \* history: the last result of sanitizeIntercomMessage
  telegramBot       \* TelegramBot.isConnected and the calls of connect and disconnect

queueVars == <<messageQueue, processingQueue, drains, wakeups, timerOn, timerLeft,
               sent_messages, attempts, nCalls, quietLeft, idsSeen>>

storeVars == <<storeNow, cleanupLeft, user_preferences, storeLog>>

\* what the queue's own steps leave alone
worldVars == <<chatType, restartLog, processUp, eventLog, raw, sanitized, telegramBot>>

\* the state of the two webhook transports
transportVars == <<httpLog, webhookEvents, processedEvents, lastTokenId, inbox, polls,
                   pollLog>>

otherVars == <<storeVars, worldVars, transportVars>>

vars == <<queueVars, otherVars>>

\* what the destination can answer to one bot.sendMessage
Answers ==
  {[res |-> "ok", wait |-> 0], [res |-> "storeFail", wait |-> 0],
   [res |-> "formatRejected", wait |-> 0], [res |-> "transient", wait |-> 0],
   [res |-> "rate429NoDuration", wait |-> 0]}
  \cup {[res |-> "rateLimited", wait |-> n] : n \in 1..MaxWaitSeconds}

\* the features of error.message that processQueue looks at
ErrorOf(ans) ==
  [has429 |-> ans.res \in {"rateLimited", "rate429NoDuration"},
   retryAfterMatch |-> IF ans.res = "rateLimited" THEN ans.wait ELSE -1,
   hasParseEntities |-> ans.res = "formatRejected",
   isError |-> ans.res # "nonError"]

IdleDrain == [pc |-> "idle", item |-> 0, att |-> 0, due |-> 0]

\* ------------------------------------------------------------ MessageStore
\* fault: the existence check never finds the row
hasBeenSent_Never(messageId) == FALSE

\* fault: the existence check looks at the conversation of the message (every
\* message is of conversation 1)
hasBeenSent_ByConversation(messageId) ==
  \E r \in sent_messages : r.conversation_id = 1

\* fault: a delivery is remembered for ever, whatever the cleanup deletes
hasBeenSent_Forever(messageId) ==
  \/ \E r \in sent_messages : r.message_id = messageId
  \/ \E i \in 1..Len(attempts) : attempts[i].id = messageId /\ attempts[i].res = "ok"

hasBeenSent(messageId) ==
  \E r \in sent_messages : r.message_id = messageId

\* fault: a plain INSERT into a table without the primary key
markAsSent_Insert(rows, messageId, conversationId, messageType, now) ==
  rows \cup {[message_id |-> messageId, timestamp |-> now,
              conversation_id |-> conversationId, message_type |-> messageType]}

\* REPLACE INTO sent_messages: the row of the same primary key is deleted first
markAsSent(rows, messageId, conversationId, messageType, now) ==
  {r \in rows : r.message_id # messageId}
    \cup {[message_id |-> messageId, timestamp |-> now,
           conversation_id |-> conversationId, message_type |-> messageType]}

\* fault: the comparison with the cutoff is not strict
cleanupOldMessages_Inclusive(rows, now) ==
  {r \in rows : ~(r.timestamp <= now - CLEANUP_INTERVAL)}

\* DELETE FROM sent_messages WHERE timestamp < cutoffTime
cleanupOldMessages(rows, now) ==
  {r \in rows : ~(r.timestamp < now - CLEANUP_INTERVAL)}

\* an optional boolean argument: {} when it is not given, else {b}
Optional == {{}, {TRUE}, {FALSE}}

\* opt ?? default
Coalesce(opt, default) == IF opt = {} THEN default ELSE CHOOSE b \in opt : TRUE

\* fault: a user without a row gets no notification
getUserPreferences_DefaultOff(userId) ==
  IF \E r \in user_preferences : r.user_id = userId
    THEN LET result == CHOOSE r \in user_preferences : r.user_id = userId
         IN [showNewMessages |-> result.show_new_messages # 0,
             showNewConversations |-> result.show_new_conversations # 0]
    ELSE [showNewMessages |-> FALSE, showNewConversations |-> FALSE]

getUserPreferences(userId) ==
  IF \E r \in user_preferences : r.user_id = userId
    THEN LET result == CHOOSE r \in user_preferences : r.user_id = userId
         IN [showNewMessages |-> result.show_new_messages # 0,
             showNewConversations |-> result.show_new_conversations # 0]
    ELSE [showNewMessages |-> TRUE, showNewConversations |-> TRUE]

\* REPLACE INTO user_preferences, with Number(...) of the two flags
updateUserPreferences(rows, userId, preferences, now) ==
  LET currentPrefs == getUserPreferences(userId)
      newPrefs ==
        [showNewMessages |->
           Coalesce(preferences.showNewMessages, currentPrefs.showNewMessages),
         showNewConversations |->
           Coalesce(preferences.showNewConversations, currentPrefs.showNewConversations)]
  IN {r \in rows : r.user_id # userId}
       \cup {[user_id |-> userId,
              show_new_messages |-> IF newPrefs.showNewMessages THEN 1 ELSE 0,
              show_new_conversations |-> IF newPrefs.showNewConversations THEN 1 ELSE 0,
              timestamp |-> now]}

shouldNotifyUser(userId, notificationType) ==
  LET prefs == getUserPreferences(userId)
  IN IF notificationType = "NEW_MESSAGE" THEN prefs.showNewMessages
     ELSE IF notificationType = "NEW_CONVERSATION" THEN prefs.showNewConversations
     ELSE TRUE

\* fault: the tables are created anew
initializeDatabase_Drop(rows) == {}

\* CREATE TABLE IF NOT EXISTS, on the database file the last process left
initializeDatabase(rows) == rows

\* -------------------------------------------------------- MessageFormatter
determineNotificationType(userType) ==
  IF userType = "contact" \/ userType = "lead" THEN "NEW_CONVERSATION" ELSE "NEW_MESSAGE"

\* the features of formattedMessage.text that extractNotificationType looks at
formatMessage(chat, notificationType) ==
  [hasLocationMarker |-> TRUE, hasMessageMarker |-> TRUE]

extractNotificationType(text) ==
  IF text.hasLocationMarker /\ text.hasMessageMarker THEN "NEW_MESSAGE" ELSE "UNKNOWN"

\* the ChatMessage of the event with message id m
ChatOf(m) == [id |-> m, type |-> chatType[m], userId |-> 1, conversationId |-> 1]

\* ------------------------------------------------------------ QueueManager
NewItem(chatMessage, notificationType, seq) ==
  [messageId |-> chatMessage.id, seq |-> seq, retryCount |-> 0, retryAfter |-> 0,
   conversationId |-> chatMessage.conversationId,
   notificationType |-> notificationType]

\* the third argument sendNotification gives markAsSent
MessageTypeOf(notificationType) ==
  IF notificationType = "NEW_CONVERSATION" THEN "NEW_CONVERSATION"
  ELSE IF notificationType = "NEW_MESSAGE" THEN "NEW_MESSAGE" ELSE "SYSTEM"

\* fault: unshift instead of push
Push_Front(q, item) == <<item>> \o q

Push(q, item) == Append(q, item)

HeadItem(q) == q[1]

Shift(q) == Tail(q)

\* fault: the loop never looks at retryAfter
MustWait_Never(item) == FALSE

MustWait(item) == item.retryAfter # 0 /\ item.retryAfter > 0

\* fault: the guard forgets the processingQueue flag
processQueueGuard_NoFlag(flag, q) == Len(q) = 0

\* fault: processQueue returns at once whatever it finds
processQueueGuard_Always(flag, q) == TRUE

processQueueGuard(flag, q) == flag \/ Len(q) = 0

\* fault: an unparsable message is handled as any other error
Classify_NoFormat(err) ==
  IF ~err.isError THEN "ignored"
  ELSE IF err.has429
    THEN IF err.retryAfterMatch >= 0 THEN "rateLimited" ELSE "ignored"
    ELSE "other"

Classify(err) ==
  IF ~err.isError THEN "ignored"
  ELSE IF err.has429
    THEN IF err.retryAfterMatch >= 0 THEN "rateLimited" ELSE "ignored"
    ELSE IF err.hasParseEntities THEN "formatRejected" ELSE "other"

\* fault: > instead of >=
RetriesExhausted_OffByOne(retryCount) == retryCount > MAX_RETRIES

RetriesExhausted(retryCount) == retryCount >= MAX_RETRIES

\* fault: the seconds are added to Date.now() without the factor 1000
OnRateLimited_Millis(item, waitSeconds) ==
  [item EXCEPT !.retryAfter = waitSeconds]

\* fault: a rate limit is counted as a failed try
OnRateLimited_Counts(item, waitSeconds) ==
  [item EXCEPT !.retryAfter = waitSeconds * MsPerSecond, !.retryCount = @ + 1]

OnRateLimited(item, waitSeconds) ==
  [item EXCEPT !.retryAfter = waitSeconds * MsPerSecond]

OnOtherError(item) == [item EXCEPT !.retryCount = @ + 1]

\* await this.bot.sendMessage(...) resolved
SendResolved(ans) == ans.res \in {"ok", "storeFail"}

\* fault: a failed REPLACE goes unnoticed
StoreThrows_Never(ans) == FALSE

\* the REPLACE of markAsSent throws
StoreThrows(ans) == ans.res = "storeFail"

\* fault: markAsSent is called whatever the send did
ReachesMarkAsSent_Always(ans) == TRUE

\* sendNotification calls markAsSent after the awaited send, inside the same try
ReachesMarkAsSent(ans) == SendResolved(ans)

\* item is a reference: a change of it shows in the queue wherever the item is
UpdateItem(q, seq, new) ==
  [k \in 1..Len(q) |-> IF q[k].seq = seq THEN new ELSE q[k]]

ItemOf(q, seq) ==
  IF \E k \in 1..Len(q) : q[k].seq = seq
    THEN q[CHOOSE k \in 1..Len(q) : q[k].seq = seq]
    ELSE NewItem([id |-> 0, conversationId |-> 0], "UNKNOWN", seq)

\* the call of bot.sendMessage for the head of q, as the history records it
Attempt(q) ==
  [seq |-> HeadItem(q).seq, id |-> HeadItem(q).messageId, res |-> "pending",
   dup |-> hasBeenSent(HeadItem(q).messageId)]

\* fault: the flag is cleared on the normal end of the loop only, not on a
\* break
Finally_OnlyAtEnd(q) == Len(q) # 0

\* finally { this.processingQueue = false }: the flag a pass leaves behind
\* when it ends with queue q
Finally(q) == FALSE

\* fault: the loop ends while one entry is left
QueueDrained_OneLeft(q) == Len(q) <= 1

\* the condition of the while loop is false
QueueDrained(q) == Len(q) = 0

\* the while loop of processQueue from its top, with queue q, history atts and
\* pending wake-ups wk, up to its next await or its end
Loop(d, q, atts, wk) ==
  IF QueueDrained(q)
    THEN /\ messageQueue' = q
         /\ attempts' = atts
         /\ wakeups' = wk
         /\ processingQueue' = Finally(q)
         /\ drains' = [drains EXCEPT ![d] = IdleDrain]
    ELSE IF MustWait(HeadItem(q))
      THEN /\ BagCardinality(wk) < MaxWake
           /\ wakeups' = wk (+) SetToBag({HeadItem(q).retryAfter})
           /\ messageQueue' = q
           /\ attempts' = atts
           /\ processingQueue' = Finally(q)
           /\ drains' = [drains EXCEPT ![d] = IdleDrain]
      ELSE /\ Len(atts) < MaxSends
           /\ attempts' = Append(atts, Attempt(q))
           /\ drains' = [drains EXCEPT ![d] =
                [pc |-> "sending", item |-> HeadItem(q).seq,
                 att |-> Len(atts) + 1, due |-> 0]]
           /\ processingQueue' = TRUE
           /\ messageQueue' = q
           /\ wakeups' = wk

FreeDrains == {d \in Drains : drains[d].pc = "idle"}

processQueue(q, wk) ==
  IF processQueueGuard(processingQueue, q)
    THEN /\ messageQueue' = q
         /\ wakeups' = wk
         /\ UNCHANGED <<processingQueue, drains, attempts>>
    ELSE /\ FreeDrains # {}
         /\ Loop(CHOOSE d \in FreeDrains : \A e \in FreeDrains : d <= e,
                 q, attempts, wk)

queueMessage(m) ==
  /\ nCalls < MaxEnqueue
  /\ nCalls' = nCalls + 1
  /\ idsSeen' = IF m > idsSeen THEN m ELSE idsSeen
  /\ UNCHANGED <<timerOn, timerLeft, sent_messages, quietLeft>>
  /\ IF hasBeenSent(m)
       THEN UNCHANGED <<messageQueue, processingQueue, drains, wakeups, attempts>>
       ELSE LET chatMessage == ChatOf(m)
                formattedMessage ==
                  formatMessage(chatMessage, determineNotificationType(chatMessage.type))
                notificationType == extractNotificationType(formattedMessage)
                q == Push(messageQueue, NewItem(chatMessage, notificationType, nCalls + 1))
            IN IF ~processingQueue
                 THEN processQueue(q, wakeups)
                 ELSE /\ messageQueue' = q
                      /\ UNCHANGED <<processingQueue, drains, wakeups, attempts>>

\* setInterval, called whatever timers exist; the handle is not kept
startProcessor ==
  /\ timerOn' = TRUE
  /\ timerLeft' = timerLeft (+) SetToBag({QUEUE_CHECK_INTERVAL})
  /\ UNCHANGED <<messageQueue, processingQueue, drains, wakeups,
                 sent_messages, attempts, nCalls, quietLeft, idsSeen>>

\* the setInterval callback of startProcessor
TimerTick ==
  /\ timerOn
  /\ BagIn(0, timerLeft)
  /\ timerLeft' = (timerLeft (-) SetToBag({0})) (+) SetToBag({QUEUE_CHECK_INTERVAL})
  /\ UNCHANGED <<timerOn, sent_messages, nCalls, quietLeft, idsSeen>>
  /\ IF ~processingQueue
       THEN processQueue(messageQueue, wakeups)
       ELSE UNCHANGED <<messageQueue, processingQueue, drains, wakeups, attempts>>

\* a setTimeout(() => this.processQueue(), ...) callback
WakeUp ==
  \E t \in BagToSet(wakeups) :
    /\ t = 0
    /\ UNCHANGED <<timerOn, timerLeft, sent_messages, nCalls, quietLeft, idsSeen>>
    /\ processQueue(messageQueue, wakeups (-) SetToBag({t}))

\* bot.sendMessage of drain d is answered: the rest of sendNotification and the
\* handling in processQueue up to its next await or its end
Respond(d, ans) ==
  /\ drains[d].pc = "sending"
  /\ UNCHANGED <<timerOn, timerLeft, nCalls, idsSeen>>
  /\ quietLeft' = IF ans.res = "rateLimited" /\ ans.wait * 1000 > quietLeft
                    THEN ans.wait * 1000
                    ELSE quietLeft
  /\ LET k == drains[d].att
         seq == drains[d].item
         item == ItemOf(messageQueue, seq)
         atts == [attempts EXCEPT ![k].res = ans.res]
         cls == Classify(ErrorOf(ans))
     IN /\ sent_messages' = IF ReachesMarkAsSent(ans) /\ ~StoreThrows(ans)
                              THEN markAsSent(sent_messages, item.messageId,
                                     item.conversationId,
                                     MessageTypeOf(item.notificationType), storeNow)
                              ELSE sent_messages
        /\ IF SendResolved(ans) /\ ~StoreThrows(ans)
             THEN /\ messageQueue' = Shift(messageQueue)
                  /\ attempts' = atts
                  /\ drains' = [drains EXCEPT ![d] =
                       [pc |-> "delay", item |-> seq, att |-> k,
                        due |-> RETRY_DELAY]]
                  /\ UNCHANGED <<processingQueue, wakeups>>
             ELSE IF cls = "rateLimited"
               THEN /\ messageQueue' = UpdateItem(messageQueue, seq,
                         OnRateLimited(item, ErrorOf(ans).retryAfterMatch))
                    /\ attempts' = atts
                    /\ processingQueue' = Finally(messageQueue)
                    /\ drains' = [drains EXCEPT ![d] = IdleDrain]
                    /\ UNCHANGED wakeups
               ELSE IF cls = "ignored"
                 THEN Loop(d, messageQueue, atts, wakeups)
                 ELSE IF cls = "formatRejected"
                   THEN Loop(d, Shift(messageQueue), atts, wakeups)
                   ELSE LET q == UpdateItem(messageQueue, seq, OnOtherError(item))
                        IN IF RetriesExhausted(OnOtherError(item).retryCount)
                             THEN Loop(d, Shift(q), atts, wakeups)
                             ELSE Loop(d, q, atts, wakeups)

\* fault: the timer of the delay resolves at once
DelayOver_AtOnce(drain) == TRUE

\* the setTimeout of RETRY_DELAY that the drain awaits has fired
DelayOver(drain) == drain.due = 0

\* the inter-message delay of drain d is over
DelayDone(d) ==
  /\ drains[d].pc = "delay"
  /\ DelayOver(drains[d])
  /\ UNCHANGED <<timerOn, timerLeft, sent_messages, nCalls, quietLeft, idsSeen>>
  /\ Loop(d, messageQueue, attempts, wakeups)

\* the time left of t after the clock has advanced by one step
Later(t) == IF t > ClockStep THEN t - ClockStep ELSE 0

\* the bag of the times left of the wake-ups after one clock step
LaterBag(B) ==
  [t \in {Later(u) : u \in BagToSet(B)} |->
     BagCardinality([u \in {x \in BagToSet(B) : Later(x) = t} |-> B[u]])]

\* Date.now() advances by one clock step
AdvanceTime ==
  /\ messageQueue' = [k \in 1..Len(messageQueue) |->
       [messageQueue[k] EXCEPT !.retryAfter = Later(@)]]
  /\ drains' = [d \in Drains |-> [drains[d] EXCEPT !.due = Later(@)]]
  /\ wakeups' = LaterBag(wakeups)
  /\ timerLeft' = LaterBag(timerLeft)
  /\ quietLeft' = Later(quietLeft)
  /\ UNCHANGED <<processingQueue, timerOn, sent_messages, attempts, nCalls, idsSeen>>

\* no bytes: the verify hook of express.json, which sets rawBody, runs only
\* for a non-empty body of content type JSON
NoBody ==
  [type |-> "none", topic |-> "none", hasSource |-> FALSE, hasParts |-> FALSE, id |-> 0]

\* crypto.createHmac("sha1", secret).update(rawBody).digest("hex"): a digest
\* that differs whenever the secret or the bytes differ
hmac(secret, rawBody) == <<secret, rawBody>>

\* no X-Hub-Signature header
NoHeader == [prefix |-> "none", digest |-> hmac(0, NoBody)]

\* the state after the constructors of QueueManager and MessageStore, on an
\* empty database
Constructed ==
  /\ messageQueue = <<>>
  /\ processingQueue = FALSE
  /\ drains = [d \in Drains |-> IdleDrain]
  /\ wakeups = EmptyBag
  /\ timerOn = FALSE
  /\ timerLeft = EmptyBag
  /\ sent_messages = {}
  /\ attempts = <<>>
  /\ nCalls = 0
  /\ quietLeft = 0
  /\ idsSeen = 0
  /\ storeNow = 0
  /\ cleanupLeft = CLEANUP_INTERVAL
  /\ user_preferences = {}
  /\ storeLog = [op |-> "none", id |-> 0, had |-> FALSE, gone |-> 0]
  /\ restartLog = [done |-> FALSE, delivered |-> {}, pending |-> {}]
  /\ processUp = TRUE
  /\ eventLog = "none"
  /\ httpLog = [request |-> [signature |-> NoHeader, rawBody |-> NoBody], status |-> 0]
  /\ webhookEvents = <<>>
  /\ processedEvents = <<>>
  /\ lastTokenId = 0
  /\ inbox = <<>>
  /\ polls = EmptyBag
  /\ pollLog = [started |-> 0, answered |-> 0, last |-> <<>>, repeated |-> FALSE]
  /\ sanitized = [called |-> "none", cleanMessage |-> <<>>, cleanedMessage |-> <<>>,
                  messageBody |-> <<>>]
  /\ telegramBot = [isConnected |-> FALSE, connecting |-> 0, disconnecting |-> 0,
                    calls |-> 0]

Init == Constructed /\ chatType = [m \in MsgIds |-> "user"] /\ raw = <<>>

\* Message ids are interchangeable: the ids of the events arrive in the order
\* 1, 2, ..., each event carrying an id seen before or the next unseen one.
NextIds == {m \in MsgIds : m <= idsSeen + 1}

\* the pipeline within one step of the store's clock; main connects the bot
\* once, so that one interval timer runs
Next ==
  \/ \E m \in NextIds : queueMessage(m) /\ UNCHANGED otherVars
  \/ ~timerOn /\ startProcessor /\ UNCHANGED otherVars
  \/ TimerTick /\ UNCHANGED otherVars
  \/ WakeUp /\ UNCHANGED otherVars
  \/ \E d \in Drains, ans \in Answers : Respond(d, ans) /\ UNCHANGED otherVars
  \/ \E d \in Drains : DelayDone(d) /\ UNCHANGED otherVars
  \/ AdvanceTime /\ UNCHANGED otherVars

Spec == Init /\ [][Next]_vars

\* ------------------------------------------------- the store on its own
\* a client calls messageStore.markAsSent
StoreMarkAsSent(m, messageType) ==
  /\ sent_messages' = markAsSent(sent_messages, m, ChatOf(m).conversationId,
                                 messageType, storeNow)
  /\ storeLog' = [op |-> "markAsSent", id |-> m, had |-> hasBeenSent(m), gone |-> 0]
  /\ UNCHANGED <<storeNow, cleanupLeft, user_preferences, worldVars, transportVars>>
  /\ UNCHANGED <<messageQueue, processingQueue, drains, wakeups, timerOn, timerLeft,
                 attempts, nCalls, quietLeft, idsSeen>>

\* the setInterval callback of setupCleanup
Cleanup ==
  /\ cleanupLeft = 0
  /\ cleanupLeft' = CLEANUP_INTERVAL
  /\ sent_messages' = cleanupOldMessages(sent_messages, storeNow)
  /\ storeLog' = [op |-> "cleanup", id |-> 0, had |-> FALSE,
                  gone |-> Cardinality(sent_messages \ sent_messages')]
  /\ UNCHANGED <<storeNow, user_preferences, worldVars, transportVars>>
  /\ UNCHANGED <<messageQueue, processingQueue, drains, wakeups, timerOn, timerLeft,
                 attempts, nCalls, quietLeft, idsSeen>>

\* Date.now() advances by one step of the store's clock
AdvanceStoreClock ==
  /\ storeNow < MaxStoreTicks * StoreClockStep
  /\ storeNow' = storeNow + StoreClockStep
  /\ cleanupLeft' = IF cleanupLeft > StoreClockStep THEN cleanupLeft - StoreClockStep ELSE 0
  /\ UNCHANGED <<user_preferences, storeLog, worldVars, transportVars, queueVars>>

NextStore ==
  \/ \E m \in MsgIds, t \in MessageTypes : StoreMarkAsSent(m, t)
  \/ Cleanup
  \/ AdvanceStoreClock

SpecStore == Init /\ [][NextStore]_vars

\* the queue in front of the store with its cleanup timer; the destination
\* accepts every send
NextRetention ==
  \/ \E m \in NextIds : queueMessage(m) /\ UNCHANGED otherVars
  \/ \E d \in Drains : Respond(d, [res |-> "ok", wait |-> 0]) /\ UNCHANGED otherVars
  \/ \E d \in Drains : DelayDone(d) /\ UNCHANGED otherVars
  \/ AdvanceTime /\ UNCHANGED otherVars
  \/ Cleanup
  \/ AdvanceStoreClock

SpecRetention == Init /\ [][NextRetention]_vars

\* ------------------------------- events of every author type, preferences
\* a client calls messageStore.updateUserPreferences
UpdateUserPreferences(userId, preferences) ==
  /\ user_preferences' =
       updateUserPreferences(user_preferences, userId, preferences, storeNow)
  /\ UNCHANGED <<storeNow, cleanupLeft, storeLog, worldVars, transportVars, queueVars>>

InitNotify == Constructed /\ chatType \in [MsgIds -> UserTypes] /\ raw = <<>>

\* the destination accepts every send
NextNotify ==
  \/ \E m \in NextIds : queueMessage(m) /\ UNCHANGED otherVars
  \/ \E u \in UserIds, p \in [showNewMessages : Optional, showNewConversations : Optional] :
       UpdateUserPreferences(u, p)
  \/ \E d \in Drains : Respond(d, [res |-> "ok", wait |-> 0]) /\ UNCHANGED otherVars
  \/ \E d \in Drains : DelayDone(d) /\ UNCHANGED otherVars
  \/ AdvanceTime /\ UNCHANGED otherVars

SpecNotify == InitNotify /\ [][NextNotify]_vars

\* ------------------------------------------------------------- restart
\* The process ends and a new one starts on the same database file: the
\* constructors run again, and the history starts again for the new process.
Restart ==
  /\ ~restartLog.done
  /\ restartLog' =
       [done |-> TRUE,
        delivered |-> {r.message_id : r \in sent_messages},
        pending |-> {messageQueue[k].messageId : k \in 1..Len(messageQueue)}]
  /\ messageQueue' = <<>>
  /\ processingQueue' = FALSE
  /\ drains' = [d \in Drains |-> IdleDrain]
  /\ wakeups' = EmptyBag
  /\ timerOn' = FALSE
  /\ timerLeft' = EmptyBag
  /\ sent_messages' = initializeDatabase(sent_messages)
  /\ user_preferences' = initializeDatabase(user_preferences)
  /\ cleanupLeft' = CLEANUP_INTERVAL
  /\ attempts' = <<>>
  /\ nCalls' = 0
  /\ UNCHANGED <<quietLeft, idsSeen, storeNow, storeLog, chatType, processUp, eventLog,
                 raw, sanitized, telegramBot, transportVars>>

RestartAnswers ==
  {[res |-> "ok", wait |-> 0], [res |-> "storeFail", wait |-> 0],
   [res |-> "transient", wait |-> 0]}

NextRestart ==
  \/ \E m \in NextIds : queueMessage(m) /\ UNCHANGED otherVars
  \/ ~timerOn /\ startProcessor /\ UNCHANGED otherVars
  \/ TimerTick /\ UNCHANGED otherVars
  \/ \E d \in Drains, ans \in RestartAnswers : Respond(d, ans) /\ UNCHANGED otherVars
  \/ \E d \in Drains : DelayDone(d) /\ UNCHANGED otherVars
  \/ AdvanceTime /\ UNCHANGED otherVars
  \/ Restart

SpecRestart == Init /\ [][NextRestart]_vars

\* ------------------------------------------------------ provider events
\* a webhook_event: the id of its message part, whether it has a
\* conversation_message, and whether that has an author
Events == [id : MsgIds, hasMessage : BOOLEAN, hasAuthor : BOOLEAN]

\* fault: no check for a missing conversation_message, whose body is then read
processWebhookEvent_NoSkip(event) ==
  IF ~event.hasMessage \/ ~event.hasAuthor THEN "throws" ELSE "new_message"

\* IntercomClient.processWebhookEvent: returns early, rethrows the TypeError
\* of reading a field of the missing author, or emits new_message
processWebhookEvent(event) ==
  IF ~event.hasMessage THEN "skip"
  ELSE IF ~event.hasAuthor THEN "throws" ELSE "new_message"

\* main's listener of webhook_event, with its listener of new_message.  The
\* listener is an async function without a catch: a rejection of
\* processWebhookEvent is an unhandled rejection, which ends the process.
WebhookEvent(event) ==
  /\ processUp
  /\ UNCHANGED <<storeVars, chatType, restartLog, raw, sanitized, telegramBot,
                 transportVars>>
  /\ LET outcome == processWebhookEvent(event)
     IN IF outcome = "skip"
          THEN /\ eventLog' = "skip"
               /\ UNCHANGED <<processUp, queueVars>>
          ELSE IF outcome = "throws"
            THEN /\ eventLog' = "unhandledRejection"
                 /\ processUp' = FALSE
                 /\ UNCHANGED queueVars
            ELSE /\ eventLog' = "new_message"
                 /\ queueMessage(event.id)
                 /\ UNCHANGED processUp

\* the destination accepts every send
NextEvents ==
  \/ \E event \in Events : event.id \in NextIds /\ WebhookEvent(event)
  \/ \E d \in Drains :
       processUp /\ Respond(d, [res |-> "ok", wait |-> 0]) /\ UNCHANGED otherVars
  \/ \E d \in Drains : processUp /\ DelayDone(d) /\ UNCHANGED otherVars
  \/ processUp /\ AdvanceTime /\ UNCHANGED otherVars

SpecEvents == Init /\ [][NextEvents]_vars

\* ------------------------------------- a send that throws any value
\* the send resolves, rejects with an Error that is neither a 429 nor a parse
\* failure, or rejects with a value that is not an Error object
ThrownAnswers ==
  {[res |-> "ok", wait |-> 0], [res |-> "transient", wait |-> 0],
   [res |-> "nonError", wait |-> 0]}

NextThrown ==
  \/ \E m \in NextIds : queueMessage(m) /\ UNCHANGED otherVars
  \/ ~timerOn /\ startProcessor /\ UNCHANGED otherVars
  \/ TimerTick /\ UNCHANGED otherVars
  \/ \E d \in Drains, ans \in ThrownAnswers : Respond(d, ans) /\ UNCHANGED otherVars
  \/ \E d \in Drains : DelayDone(d) /\ UNCHANGED otherVars
  \/ AdvanceTime /\ UNCHANGED otherVars

SpecThrown == Init /\ [][NextThrown]_vars

\* ------------------------------------------ the direct webhook endpoint
\* the secrets a request can have been signed with
Secrets == {1, 2}

\* INTERCOM_WEBHOOK_SECRET, which the constructor requires
webhookSecret == 1

\* the JSON documents a request can carry
Bodies ==
  [type : {"notification_event", "ping"},
   topic : {"conversation.user.created", "conversation.user.replied"},
   hasSource : BOOLEAN, hasParts : BOOLEAN, id : MsgIds]

\* the text `sha1=${computedSignature}`
Sha1Header(digest) == [prefix |-> "sha1=", digest |-> digest]

\* a digest sent without the prefix
BareHeader(digest) == [prefix |-> "", digest |-> digest]

\* a body that differs from the given one
OtherBody(body) == [body EXCEPT !.hasParts = ~body.hasParts]

\* what X-Hub-Signature can hold for a request with these bytes: nothing, the
\* signature of these bytes or of other bytes under either secret, or the
\* digest without its prefix
SignaturesOf(body) ==
  {NoHeader, BareHeader(hmac(webhookSecret, body))}
    \cup {Sha1Header(hmac(k, b)) : k \in Secrets, b \in {body, OtherBody(body)}}

Requests ==
  UNION {{[signature |-> sig, rawBody |-> body] : sig \in SignaturesOf(body)} :
           body \in Bodies}
    \cup {[signature |-> sig, rawBody |-> NoBody] :
            sig \in {NoHeader} \cup {Sha1Header(hmac(webhookSecret, b)) : b \in Bodies}}

\* fault: the computed signature is not compared with the header
verifyWebhookSignature_NoCompare(req) ==
  IF req.signature = NoHeader \/ req.rawBody = NoBody THEN "missing" ELSE "next"

\* DirectWebhookServer.verifyWebhookSignature: "next" for next(), else the
\* 401 it answers
verifyWebhookSignature(req) ==
  IF req.signature = NoHeader \/ req.rawBody = NoBody THEN "missing"
  ELSE IF Sha1Header(hmac(webhookSecret, req.rawBody)) # req.signature THEN "invalid"
  ELSE "next"

\* fault: the first conversation part is emitted also when the source was
handleWebhook_Both(body) ==
  IF body.type # "notification_event" THEN <<>>
  ELSE (IF body.hasSource /\ body.topic = "conversation.user.created"
          THEN <<[uuid |-> 0, id |-> body.id, from |-> "source"]>> ELSE <<>>)
       \o (IF body.hasParts
             THEN <<[uuid |-> 0, id |-> body.id, from |-> "conversation_parts"]>>
             ELSE <<>>)

\* DirectWebhookServer.handleWebhook: the payloads it emits, in order
handleWebhook(body) ==
  IF body.type # "notification_event" THEN <<>>
  ELSE IF body.hasSource /\ body.topic = "conversation.user.created"
    THEN <<[uuid |-> 0, id |-> body.id, from |-> "source"]>>
  ELSE IF body.hasParts
    THEN <<[uuid |-> 0, id |-> body.id, from |-> "conversation_parts"]>>
  ELSE <<>>

\* POST /webhook: the two handlers of the route
DirectRequest(req) ==
  /\ Len(webhookEvents) < MaxEmit
  /\ IF verifyWebhookSignature(req) # "next"
       THEN /\ httpLog' = [request |-> req, status |-> 401]
            /\ UNCHANGED webhookEvents
       ELSE /\ httpLog' = [request |-> req, status |-> 200]
            /\ webhookEvents' = webhookEvents \o handleWebhook(req.rawBody)
  /\ UNCHANGED <<processedEvents, lastTokenId, inbox, polls, pollLog>>
  /\ UNCHANGED <<queueVars, storeVars, worldVars>>

NextDirect == \E req \in Requests : DirectRequest(req)

SpecDirect == Init /\ [][NextDirect]_vars

\* ------------------------------- the endpoint and the normalizer, side by side
\* the requests that pass the signature check
SignedRequests == {req \in Requests : verifyWebhookSignature(req) = "next"}

\* the inbound side alone: the sends of the drain stay unanswered
NextInbound ==
  \/ \E req \in SignedRequests : DirectRequest(req)
  \/ \E event \in Events : event.id \in NextIds /\ WebhookEvent(event)

SpecInbound == Init /\ [][NextInbound]_vars

\* ------------------------------------------------ the polling transport
\* request.content: empty, not JSON, or an event with its id, its type and
\* whether it has a first conversation part
Contents ==
  {[kind |-> "empty", id |-> 0, hasParts |-> FALSE],
   [kind |-> "unparsable", id |-> 0, hasParts |-> FALSE],
   [kind |-> "ping", id |-> 1, hasParts |-> TRUE]}
    \cup {[kind |-> "notification_event", id |-> i, hasParts |-> b] :
            i \in MsgIds, b \in BOOLEAN}

\* webhook.site numbers the requests it receives: the uuid of a request is
\* its position in inbox
RequestsOf(held) == [k \in 1..Len(held) |-> [uuid |-> k, content |-> held[k]]]

\* the requests received after the one with this uuid
After(requests, uuid) == SubSeq(requests, uuid + 1, Len(requests))

\* response.data.data for GET .../requests?after=uuid (without the parameter
\* when uuid is 0): the requests after that one, or all of them when the
\* service does not honour the parameter
Responses(held, uuid) == {RequestsOf(held), After(RequestsOf(held), uuid)}

\* the members of processedEvents are the uuids of requests and the ids of
\* events, which are texts of different forms
UuidKey(uuid) == <<"uuid", uuid>>

EventKey(id) == <<"event", id>>

\* fault: only the uuids of requests are looked up
Has_OnlyUuid(processed, key) ==
  key[1] = "uuid" /\ \E k \in 1..Len(processed) : processed[k] = key

\* Set.has
Has(processed, key) == \E k \in 1..Len(processed) : processed[k] = key

\* Set.add, which keeps the order of insertion
Add(processed, key) == IF Has(processed, key) THEN processed ELSE Append(processed, key)

\* the body of the loop for one request that is not skipped by its uuid
pollRequest(request, st) ==
  LET event == request.content
  IN IF event.kind \in {"empty", "unparsable"} \/ Has(st.processed, EventKey(event.id))
       THEN st
       ELSE [st EXCEPT
               !.emitted =
                 IF event.kind = "notification_event" /\ event.hasParts
                   THEN Append(@, [uuid |-> request.uuid, id |-> event.id,
                                   from |-> "conversation_parts"])
                   ELSE @,
               !.processed = Add(Add(@, UuidKey(request.uuid)), EventKey(event.id))]

\* for (const request of response.data.data)
RECURSIVE pollLoop(_, _)
pollLoop(requests, st) ==
  IF requests = <<>> THEN st
  ELSE LET request == Head(requests)
       IN pollLoop(Tail(requests),
                   IF Has(st.processed, UuidKey(request.uuid)) THEN st
                   ELSE [pollRequest(request, st) EXCEPT !.last = request.uuid])

\* the cleanup of processedEvents, which keeps the last PROCESSED_KEEP
cleanupProcessed(processed) ==
  IF Len(processed) > PROCESSED_KEEP
    THEN SubSeq(processed, Len(processed) - PROCESSED_KEEP + 1, Len(processed))
    ELSE processed

\* webhook.site receives a request
Arrive(content) ==
  /\ Len(inbox) < MaxRequests
  /\ inbox' = Append(inbox, content)
  /\ UNCHANGED <<httpLog, webhookEvents, processedEvents, lastTokenId, polls, pollLog>>
  /\ UNCHANGED <<queueVars, storeVars, worldVars>>

\* a tick of the poll timer: the callback runs up to its await of axios.get
PollStart ==
  /\ pollLog.started < MaxPolls
  /\ polls' = polls (+) SetToBag({[after |-> lastTokenId, since |-> pollLog.answered]})
  /\ pollLog' = [pollLog EXCEPT !.started = @ + 1]
  /\ UNCHANGED <<httpLog, webhookEvents, processedEvents, lastTokenId, inbox>>
  /\ UNCHANGED <<queueVars, storeVars, worldVars>>

\* axios.get resolves and the callback runs to its end
PollReturn(poll, response) ==
  /\ BagIn(poll, polls)
  /\ response \in Responses(inbox, poll.after)
  /\ polls' = polls (-) SetToBag({poll})
  /\ LET st == pollLoop(response, [processed |-> processedEvents, last |-> lastTokenId,
                                    emitted |-> webhookEvents])
     IN /\ processedEvents' = cleanupProcessed(st.processed)
        /\ lastTokenId' = st.last
        /\ webhookEvents' = st.emitted
  /\ pollLog' = [pollLog EXCEPT
                   !.answered = @ + 1,
                   !.last = response,
                   !.repeated = /\ poll.since < pollLog.answered
                                /\ response = pollLog.last
                                /\ response # <<>>]
  /\ UNCHANGED <<httpLog, inbox>>
  /\ UNCHANGED <<queueVars, storeVars, worldVars>>

\* axios.get rejects: the callback logs the failure
PollFail(poll) ==
  /\ BagIn(poll, polls)
  /\ polls' = polls (-) SetToBag({poll})
  /\ UNCHANGED <<httpLog, webhookEvents, processedEvents, lastTokenId, inbox, pollLog>>
  /\ UNCHANGED <<queueVars, storeVars, worldVars>>

NextPoll ==
  \/ \E content \in Contents : Arrive(content)
  \/ PollStart
  \/ \E poll \in BagToSet(polls) :
       \E response \in Responses(inbox, poll.after) : PollReturn(poll, response)
  \/ \E poll \in BagToSet(polls) : PollFail(poll)

SpecPoll == Init /\ [][NextPoll]_vars

\* ------------------------------------------------------------ TelegramBot
\* connect up to its first await: the guard on isConnected
ConnectCall ==
  /\ telegramBot.calls < MaxBotCalls
  /\ telegramBot' =
       IF telegramBot.isConnected
         THEN [telegramBot EXCEPT !.calls = @ + 1]
         ELSE [telegramBot EXCEPT !.calls = @ + 1, !.connecting = @ + 1]
  /\ UNCHANGED <<queueVars, storeVars, transportVars, chatType, restartLog, processUp,
                 eventLog, raw, sanitized>>

\* the awaited calls of a connect have resolved: the flag is set and the
\* processor is started
ConnectDone ==
  /\ telegramBot.connecting > 0
  /\ telegramBot' = [telegramBot EXCEPT !.isConnected = TRUE, !.connecting = @ - 1]
  /\ startProcessor
  /\ UNCHANGED <<storeVars, transportVars, chatType, restartLog, processUp,
                 eventLog, raw, sanitized>>

\* one of the awaited calls of a connect has rejected: the error is logged and
\* thrown again
ConnectFail ==
  /\ telegramBot.connecting > 0
  /\ telegramBot' = [telegramBot EXCEPT !.connecting = @ - 1]
  /\ UNCHANGED <<queueVars, storeVars, transportVars, chatType, restartLog, processUp,
                 eventLog, raw, sanitized>>

\* disconnect up to its await of stopPolling
DisconnectCall ==
  /\ telegramBot.calls < MaxBotCalls
  /\ telegramBot' =
       IF ~telegramBot.isConnected
         THEN [telegramBot EXCEPT !.calls = @ + 1]
         ELSE [telegramBot EXCEPT !.calls = @ + 1, !.disconnecting = @ + 1]
  /\ UNCHANGED <<queueVars, storeVars, transportVars, chatType, restartLog, processUp,
                 eventLog, raw, sanitized>>

\* stopPolling has resolved: the flag is cleared; no timer is cleared
DisconnectDone ==
  /\ telegramBot.disconnecting > 0
  /\ telegramBot' = [telegramBot EXCEPT !.isConnected = FALSE, !.disconnecting = @ - 1]
  /\ UNCHANGED <<queueVars, storeVars, transportVars, chatType, restartLog, processUp,
                 eventLog, raw, sanitized>>

\* stopPolling has rejected
DisconnectFail ==
  /\ telegramBot.disconnecting > 0
  /\ telegramBot' = [telegramBot EXCEPT !.disconnecting = @ - 1]
  /\ UNCHANGED <<queueVars, storeVars, transportVars, chatType, restartLog, processUp,
                 eventLog, raw, sanitized>>

\* the destination accepts every send
NextBot ==
  \/ ConnectCall
  \/ ConnectDone
  \/ ConnectFail
  \/ DisconnectCall
  \/ DisconnectDone
  \/ DisconnectFail
  \/ \E m \in NextIds : queueMessage(m) /\ UNCHANGED otherVars
  \/ TimerTick /\ UNCHANGED otherVars
  \/ \E d \in Drains : Respond(d, [res |-> "ok", wait |-> 0]) /\ UNCHANGED otherVars
  \/ \E d \in Drains : DelayDone(d) /\ UNCHANGED otherVars
  \/ AdvanceTime /\ UNCHANGED otherVars

SpecBot == Init /\ [][NextBot]_vars

\* ---------------------------------------------------------- the sanitizer
\* A string is a sequence of runs, each n times one unit.  A unit is one
\* character, but for a whole tag "<b>" (three characters) and an escaped
\* character "\\." (two).  Bodies hold no entities and every "<" is closed.
Units == {"a", " ", ".", "<b>"}

RunLengths ==
  {1, MAX_MESSAGE_LENGTH - 1, MAX_MESSAGE_LENGTH, MAX_MESSAGE_LENGTH + 1}

Strings == UNION {[1..k -> [ch : Units, n : RunLengths]] : k \in 0..MaxRuns}

UnitLength(ch) == CASE ch = "<b>" -> 3 [] ch = "\\." -> 2 [] OTHER -> 1

\* String.length
RECURSIVE length(_)
length(text) ==
  IF text = <<>> THEN 0
  ELSE Head(text).n * UnitLength(Head(text).ch) + length(Tail(text))

IsNoTag(run) == run.ch # "<b>"

\* replace(/<[^>]*>/g, '')
stripTags(text) == SelectSeq(text, IsNoTag)

RECURSIVE trimStart(_)
trimStart(text) ==
  IF text # <<>> /\ Head(text).ch = " " THEN trimStart(Tail(text)) ELSE text

RECURSIVE trimEnd(_)
trimEnd(text) ==
  IF text # <<>> /\ text[Len(text)].ch = " "
  THEN trimEnd(SubSeq(text, 1, Len(text) - 1))
  ELSE text

trim(text) == trimEnd(trimStart(text))

\* substring(0, end) of a text whose units are one character each
RECURSIVE substring(_, _)
substring(text, end) ==
  IF text = <<>> \/ end = 0 THEN <<>>
  ELSE IF Head(text).n <= end
       THEN <<Head(text)>> \o substring(Tail(text), end - Head(text).n)
       ELSE <<[ch |-> Head(text).ch, n |-> end]>>

\* the truncation marker '...'
Marker == <<[ch |-> ".", n |-> 3]>>

\* sanitizeText(text, 'text') of sanitizer.ts: a backslash before every
\* special character of MarkdownV2
sanitizeText(text) ==
  [i \in 1..Len(text) |->
     IF text[i].ch = "." THEN [ch |-> "\\.", n |-> text[i].n] ELSE text[i]]

\* the local cleanMessage of cleanMessageContent
cleanMessage(message) == trim(stripTags(message))

cleanMessageContent_AtLimit(message) ==
  IF length(cleanMessage(message)) >= MAX_MESSAGE_LENGTH
  THEN substring(cleanMessage(message), MAX_MESSAGE_LENGTH) \o Marker
  ELSE cleanMessage(message)

cleanMessageContent(message) ==
  IF length(cleanMessage(message)) > MAX_MESSAGE_LENGTH
  THEN substring(cleanMessage(message), MAX_MESSAGE_LENGTH) \o Marker
  ELSE cleanMessage(message)

\* replace(/\s+/g, ' ')
RECURSIVE normalizeSpaces(_)
normalizeSpaces(text) ==
  IF text = <<>> THEN <<>>
  ELSE IF Head(text).ch = " "
       THEN <<[ch |-> " ", n |-> 1]>> \o normalizeSpaces(trimStart(Tail(text)))
       ELSE <<Head(text)>> \o normalizeSpaces(Tail(text))

\* the sanitizer without Markdown escaping (the second sanitizer of the
\* sources): sanitizeText strips the tags, trims and normalizes the spaces
sanitizeTextBasic(text) == normalizeSpaces(trim(stripTags(text)))

cleanMessageBasic(message) == trim(sanitizeTextBasic(message))

cleanMessageContentBasic(message) ==
  IF length(cleanMessageBasic(message)) > MAX_MESSAGE_LENGTH
  THEN substring(cleanMessageBasic(message), MAX_MESSAGE_LENGTH) \o Marker
  ELSE cleanMessageBasic(message)

sanitizeIntercomMessage ==
  /\ sanitized' = [called |-> "escaping",
                   cleanMessage |-> cleanMessage(raw),
                   cleanedMessage |-> cleanMessageContent(raw),
                   messageBody |-> sanitizeText(cleanMessageContent(raw))]
  /\ UNCHANGED <<queueVars, storeVars, transportVars, chatType, restartLog, processUp,
                 eventLog, raw, telegramBot>>

sanitizeIntercomMessageBasic ==
  /\ sanitized' = [called |-> "basic",
                   cleanMessage |-> cleanMessageBasic(raw),
                   cleanedMessage |-> cleanMessageContentBasic(raw),
                   messageBody |-> cleanMessageContentBasic(raw)]
  /\ UNCHANGED <<queueVars, storeVars, transportVars, chatType, restartLog, processUp,
                 eventLog, raw, telegramBot>>

InitSanitize == Constructed /\ chatType = [m \in MsgIds |-> "user"] /\ raw \in Strings

NextSanitize ==
  \/ sanitizeIntercomMessage
  \/ sanitizeIntercomMessageBasic

SpecSanitize == InitSanitize /\ [][NextSanitize]_vars

\* ================================================================ claims
DedupRecord(m) == \E r \in sent_messages : r.message_id = m

AttemptsOf(m) == {i \in 1..Len(attempts) : attempts[i].id = m}

AttemptsOfEntry(s) == {i \in 1..Len(attempts) : attempts[i].seq = s}

InQueue(s) == \E k \in 1..Len(messageQueue) : messageQueue[k].seq = s

\* entry s is in the queue after the step
StillInQueue(s) == \E k \in 1..Len(messageQueue') : messageQueue'[k].seq = s

NewAttempt == Len(attempts') > Len(attempts)

Transient == [res |-> "transient", wait |-> 0]

Ok == [res |-> "ok", wait |-> 0]

RateLimitedAnswers == {a \in Answers : a.res = "rateLimited"}

\* C1: for every message id m, when the same event for m is handed to
\* queueMessage twice, at any point relative to the drain, and the destination
\* accepts every send, at most one (hence exactly one) outbound send for m
\* occurs.
C1_ExactlyOneSend ==
  \A m \in MsgIds :
    (\A i \in AttemptsOf(m) : attempts[i].res \in {"pending", "ok"})
      => Cardinality(AttemptsOf(m)) <= 1

\* C2: a call of queueMessage for an id that has a dedup record leaves the
\* queue unchanged, starts no drain, sends nothing and writes nothing.
C2_DeliveredEnqueueIsNoOp ==
  [][\A m \in MsgIds :
       (DedupRecord(m) /\ queueMessage(m))
         => UNCHANGED <<messageQueue, processingQueue, drains, wakeups,
                        attempts, sent_messages>>]_vars

C2_Witness ==
  /\ \E s \in 1..nCalls : ~InQueue(s) /\ AttemptsOfEntry(s) = {}
  /\ sent_messages # {}

\* C3: FIFO. When a send attempt is made for an entry, no entry enqueued
\* before it is still in the queue, and no entry enqueued after it has been
\* attempted before: outbound sends occur in enqueue order.
C3_FIFO ==
  [][NewAttempt =>
       LET a == attempts'[Len(attempts')]
       IN /\ \A k \in 1..Len(messageQueue') : messageQueue'[k].seq >= a.seq
          /\ \A i \in 1..Len(attempts) : attempts[i].seq <= a.seq]_vars

C3_Witness ==
  /\ Len(attempts) >= 3
  /\ \A i \in 1..3 : attempts[i].seq = i /\ attempts[i].res = "ok"

\* C4: single-flight drain. At most one execution of processQueue is past its
\* guard and at most one send is in flight, at any time; a timer tick, a
\* wake-up or a post-enqueue trigger that finds the flag set sends nothing and
\* does not modify the queue (the enqueue itself only appends its entry).
C4_OneDrain ==
  /\ Cardinality({d \in Drains : drains[d].pc # "idle"}) <= 1
  /\ Cardinality({i \in 1..Len(attempts) : attempts[i].res = "pending"}) <= 1
  /\ (\E d \in Drains : drains[d].pc # "idle") => processingQueue

C4_SingleFlight ==
  /\ []C4_OneDrain
  /\ [][(processingQueue /\ (TimerTick \/ WakeUp))
          => UNCHANGED <<messageQueue, attempts, drains, processingQueue>>]_vars
  /\ [][\A m \in MsgIds :
          (processingQueue /\ queueMessage(m))
            => /\ UNCHANGED <<attempts, drains, processingQueue>>
               /\ \/ messageQueue' = messageQueue
                  \/ /\ Len(messageQueue') = Len(messageQueue) + 1
                     /\ SubSeq(messageQueue', 1, Len(messageQueue)) = messageQueue]_vars

C4_Witness ==
  /\ processingQueue
  /\ Len(messageQueue) >= 2
  /\ Len(attempts) = 1
  /\ attempts[1].res = "pending"

\* C5: retry ceiling. An entry whose every send attempt is answered by a
\* transient failure is attempted exactly MAX_RETRIES times and then leaves
\* the queue; the step that removes it writes no dedup record and, when an
\* entry stands behind it, attempts that entry.
C5_Count ==
  \A s \in 1..nCalls :
    (/\ AttemptsOfEntry(s) # {}
     /\ \A i \in AttemptsOfEntry(s) : attempts[i].res = "transient")
      => IF InQueue(s)
           THEN /\ Cardinality(AttemptsOfEntry(s)) < MAX_RETRIES
                /\ ItemOf(messageQueue, s).retryCount = Cardinality(AttemptsOfEntry(s))
           ELSE Cardinality(AttemptsOfEntry(s)) = MAX_RETRIES

C5_Drop ==
  \A d \in Drains :
    (/\ Respond(d, Transient)
     /\ ~StillInQueue(drains[d].item))
      => /\ sent_messages' = sent_messages
         /\ Len(messageQueue') > 0
              => /\ NewAttempt
                 /\ attempts'[Len(attempts')].seq = messageQueue'[1].seq
                 /\ attempts'[Len(attempts')].seq # drains[d].item

C5_RetryCeiling == []C5_Count /\ [][C5_Drop]_vars

C5_Witness ==
  /\ Len(attempts) >= MAX_RETRIES + 1
  /\ \A i \in 1..MAX_RETRIES : attempts[i].seq = 1 /\ attempts[i].res = "transient"
  /\ attempts[MAX_RETRIES + 1].seq # 1
  /\ ~InQueue(1)
  /\ ~DedupRecord(attempts[1].id)

\* C6: rate-limit pause. An answer RateLimited(n) sets retryAfter of the head
\* entry to now + n seconds and ends the drain; no send attempt of any entry
\* is made before that time has passed; the next attempt is for the same entry; and when
\* an attempt succeeds exactly one dedup record for its id exists.
C6_Pause ==
  \A d \in Drains, a \in RateLimitedAnswers :
    Respond(d, a)
      => /\ Len(messageQueue') = Len(messageQueue)
         /\ messageQueue'[1].seq = drains[d].item
         /\ messageQueue'[1].retryAfter = a.wait * 1000
         /\ ~processingQueue'
         /\ drains'[d].pc = "idle"
         /\ ~NewAttempt

C6_SameEntryNext ==
  \A i \in 1..Len(attempts) - 1 :
    attempts[i].res = "rateLimited" => attempts[i + 1].seq = attempts[i].seq

C6_OneRecord ==
  \A d \in Drains :
    Respond(d, Ok)
      => Cardinality({r \in sent_messages' :
                        r.message_id = attempts[drains[d].att].id}) = 1

C6_RateLimitPause ==
  /\ [][C6_Pause /\ C6_OneRecord]_vars
  /\ [][NewAttempt => quietLeft = 0]_vars
  /\ []C6_SameEntryNext

C6_Witness ==
  /\ Len(attempts) >= 2
  /\ attempts[1].res = "rateLimited"
  /\ attempts[2].res = "ok"
  /\ attempts[2].seq = attempts[1].seq
  /\ quietLeft = 0
  /\ Cardinality({r \in sent_messages : r.message_id = attempts[2].id}) = 1

\* C7: a rate limit is never a failure. An answer RateLimited(n) leaves the
\* retryCount of the entry unchanged and leaves the entry at the head of the
\* queue, however many such answers the entry has had.
C7_RateLimitKeepsEntry ==
  [][\A d \in Drains, a \in RateLimitedAnswers :
       Respond(d, a)
         => /\ Len(messageQueue') = Len(messageQueue)
            /\ messageQueue'[1].seq = messageQueue[1].seq
            /\ messageQueue'[1].retryCount = messageQueue[1].retryCount
            /\ \A k \in 2..Len(messageQueue) : messageQueue'[k] = messageQueue[k]]_vars

C7_Witness ==
  /\ Len(attempts) >= 2
  /\ attempts[1].res = "rateLimited"
  /\ attempts[2].res = "rateLimited"
  /\ Len(messageQueue) > 0
  /\ messageQueue[1].seq = attempts[2].seq
  /\ messageQueue[1].retryCount = 0

\* C8: a dedup record for a message id exists only if an outbound send for
\* that id has completed successfully earlier; an answer other than success
\* never creates a record.
C8_Record ==
  \A r \in sent_messages :
    \E i \in 1..Len(attempts) :
      attempts[i].id = r.message_id /\ attempts[i].res \in {"ok", "storeFail"}

C8_RecordImpliesSuccess ==
  /\ []C8_Record
  /\ [][\A d \in Drains, a \in Answers :
          (Respond(d, a) /\ a.res # "ok") => sent_messages' = sent_messages]_vars

C8_Witness ==
  /\ Len(attempts) >= 3
  /\ attempts[1].res = "transient"
  /\ attempts[2].res = "formatRejected"
  /\ attempts[3].res = "ok"
  /\ {r.message_id : r \in sent_messages} = {attempts[3].id}
  /\ attempts[1].id # attempts[3].id

\* C9: no outbound send is attempted for a queue entry whose id has a dedup
\* record at the moment of the attempt.
C9_NoSendWithRecord ==
  \A i \in 1..Len(attempts) : ~attempts[i].dup

\* C10: a 429 answer without a parsable retry-after duration counts as a
\* transient failure: each one increments retryCount of the entry, and the
\* entry has at most MAX_RETRIES of them.
C10_UnparsableIsTransient ==
  \A s \in 1..nCalls :
    LET n == Cardinality({i \in AttemptsOfEntry(s) :
                            attempts[i].res = "rate429NoDuration"})
    IN /\ n <= MAX_RETRIES
       /\ InQueue(s) => ItemOf(messageQueue, s).retryCount >= n

FormatRejected == [res |-> "formatRejected", wait |-> 0]

\* C11: when the send of the head entry is answered "can't parse entities", the
\* entry leaves the queue in that step whatever its retryCount, the store is
\* not written, and the same drain goes on with the next head: it sends it if
\* it need not wait, and ends if the queue is empty.
C11_Step ==
  \A d \in Drains :
    Respond(d, FormatRejected) =>
      /\ HeadItem(messageQueue).seq = drains[d].item
      /\ messageQueue' = Tail(messageQueue)
      /\ sent_messages' = sent_messages
      /\ Len(attempts') <= Len(attempts) + 1
      /\ IF Len(messageQueue) = 1
           THEN ~processingQueue' /\ ~NewAttempt
           ELSE IF messageQueue[2].retryAfter > 0
             THEN ~NewAttempt
             ELSE /\ NewAttempt
                  /\ attempts'[Len(attempts')].seq = messageQueue[2].seq
                  /\ drains'[d].pc = "sending"
                  /\ processingQueue'

C11_FormatRejectedDrops == [][C11_Step]_vars

\* an entry that failed once and was then rejected as unparsable is gone
\* without a row, and the next send is for the entry behind it
C11_Witness ==
  /\ Len(attempts) >= 3
  /\ attempts[1].res = "transient"
  /\ attempts[2].res = "formatRejected"
  /\ attempts[2].seq = attempts[1].seq
  /\ attempts[3].seq # attempts[2].seq
  /\ ~InQueue(attempts[2].seq)
  /\ ~DedupRecord(attempts[2].id)

StoreFail == [res |-> "storeFail", wait |-> 0]

\* C12 as stated: when the send succeeds and markAsSent throws, the entry is
\* not popped: it is still the head of the queue after the step, the step
\* writes no row for it, and the entry is sent again.
C12_StoreFailureKeepsEntry ==
  [][\A d \in Drains :
       Respond(d, StoreFail) =>
         /\ Len(messageQueue') > 0
         /\ HeadItem(messageQueue').seq = drains[d].item
         /\ sent_messages' = sent_messages
         /\ NewAttempt
         /\ attempts'[Len(attempts')].seq = drains[d].item]_vars

\* C12 amended: when the send succeeds and markAsSent throws, the step writes
\* no row and counts a failed try: retryCount goes up by one; while it stays
\* below MAX_RETRIES the entry is still the head and is sent again at once, and
\* when it reaches MAX_RETRIES the entry is removed from the queue.
C12_Step ==
  \A d \in Drains :
    Respond(d, StoreFail) =>
      LET item == HeadItem(messageQueue)
      IN /\ item.seq = drains[d].item
         /\ sent_messages' = sent_messages
         /\ IF item.retryCount + 1 < MAX_RETRIES
              THEN /\ messageQueue' =
                        [messageQueue EXCEPT ![1].retryCount = @ + 1]
                   /\ NewAttempt
                   /\ attempts'[Len(attempts')].seq = item.seq
              ELSE messageQueue' = Tail(messageQueue)

C12_StoreFailureIsFailedTry == [][C12_Step]_vars

\* an entry whose three sends all succeeded while the store failed each time:
\* sent again twice, then removed, without a row
C12_Witness ==
  /\ Len(attempts) >= 3
  /\ \A i \in 1..3 : attempts[i].res = "storeFail" /\ attempts[i].seq = attempts[1].seq
  /\ ~InQueue(attempts[1].seq)
  /\ ~DedupRecord(attempts[1].id)

HeadBlocked == Len(messageQueue) > 0 /\ messageQueue[1].retryAfter > 0

\* C13: while the head's retryAfter is in the future no send is pending and no
\* step (tick, wake-up, enqueue or any other) starts a send for any entry; and
\* every send that starts is for the entry at the head of the queue.
C13_NoneInFlight == HeadBlocked => \A d \in Drains : drains[d].pc # "sending"

C13_Step ==
  /\ HeadBlocked => ~NewAttempt
  /\ NewAttempt =>
       /\ Len(messageQueue') > 0
       /\ attempts'[Len(attempts')].seq = HeadItem(messageQueue').seq

C13_HeadOfLineBlocking == []C13_NoneInFlight /\ [][C13_Step]_vars

\* the head waits with another entry behind it, the interval timer runs, and a
\* trigger that found the head waiting has scheduled a wake-up
C13_Witness ==
  /\ HeadBlocked
  /\ Len(messageQueue) >= 2
  /\ AttemptsOfEntry(messageQueue[2].seq) = {}
  /\ timerOn
  /\ wakeups # EmptyBag

\* C14: a run of the cleanup at time t leaves exactly the rows whose timestamp
\* is not older than t - CLEANUP_INTERVAL: every older row is gone and every
\* other row is there as it was.
C14_Step ==
  Cleanup =>
    /\ \A r \in sent_messages' : r.timestamp >= storeNow - CLEANUP_INTERVAL
    /\ \A r \in sent_messages :
         r.timestamp >= storeNow - CLEANUP_INTERVAL => r \in sent_messages'
    /\ sent_messages' \subseteq sent_messages

C14_RetentionSweep == [][C14_Step]_vars

\* the cleanup has just removed one row and kept a row that is exactly
\* CLEANUP_INTERVAL old
C14_Witness ==
  /\ storeLog.op = "cleanup"
  /\ storeLog.gone = 1
  /\ cleanupLeft = CLEANUP_INTERVAL
  /\ \E r \in sent_messages : r.timestamp = storeNow - CLEANUP_INTERVAL

RowsOf(rows, m) == {r \in rows : r.message_id = m}

\* C15: a call of markAsSent for id m, the first or a later one, leaves exactly
\* one row for m, so hasBeenSent(m) is true after it, and leaves the rows of the
\* other ids as they were; no id ever has two rows.
C15_OneRowPerId == \A m \in MsgIds : Cardinality(RowsOf(sent_messages, m)) <= 1

C15_Step ==
  \A m \in MsgIds, t \in MessageTypes :
    StoreMarkAsSent(m, t) =>
      /\ Cardinality(RowsOf(sent_messages', m)) = 1
      /\ \A r \in RowsOf(sent_messages', m) : r.message_type = t /\ r.timestamp = storeNow
      /\ sent_messages' \ RowsOf(sent_messages', m)
           = sent_messages \ RowsOf(sent_messages, m)

C15_MarkAsSentIdempotent == []C15_OneRowPerId /\ [][C15_Step]_vars

\* markAsSent has just been called for an id that had a row, written at an
\* earlier time; the id has one row and the other id's row is there
C15_Witness ==
  /\ storeLog.op = "markAsSent"
  /\ storeLog.had
  /\ Cardinality(RowsOf(sent_messages, storeLog.id)) = 1
  /\ storeNow > 0
  /\ \A r \in RowsOf(sent_messages, storeLog.id) : r.timestamp = storeNow
  /\ \E r \in sent_messages : r.message_id # storeLog.id /\ r.timestamp = 0

\* C16: an entry is enqueued with the classification of its author type,
\* NEW_CONVERSATION for a lead or a contact and NEW_MESSAGE for any other, and
\* the row written after its successful send has that classification as its
\* message_type.
C16_ClassificationFromAuthor ==
  /\ \A k \in 1..Len(messageQueue) :
       messageQueue[k].notificationType
         = determineNotificationType(chatType[messageQueue[k].messageId])
  /\ \A r \in sent_messages :
       r.message_type = determineNotificationType(chatType[r.message_id])

\* C20: an enqueue of a message whose class (by its author type) the
\* preference row of its user disables adds no queue entry and starts no send.
C20_SuppressedAtEnqueue ==
  [][\A m \in MsgIds :
       (/\ queueMessage(m)
        /\ ~shouldNotifyUser(ChatOf(m).userId,
                             determineNotificationType(ChatOf(m).type)))
         => UNCHANGED <<messageQueue, attempts>>]_vars

\* C17: after a restart (empty queue, the rows of sent_messages kept), the new
\* process sends nothing for an id that was delivered before the restart; an
\* event handed to queueMessage is skipped when its id has a row and gets a
\* queue entry when it has none; and an entry leaves the queue only after a
\* send for it was made.
C17_NoResend ==
  restartLog.done =>
    \A i \in 1..Len(attempts) : attempts[i].id \notin restartLog.delivered

C17_Step ==
  restartLog.done =>
    /\ \A m \in MsgIds :
         queueMessage(m) =>
           IF DedupRecord(m)
             THEN UNCHANGED <<messageQueue, attempts>>
             ELSE /\ Len(messageQueue') = Len(messageQueue) + 1
                  /\ messageQueue'[Len(messageQueue')].messageId = m
                  /\ messageQueue'[Len(messageQueue')].seq = nCalls'
    /\ \A k \in 1..Len(messageQueue) :
         (\A j \in 1..Len(messageQueue') : messageQueue'[j].seq # messageQueue[k].seq)
           => \E i \in 1..Len(attempts') : attempts'[i].seq = messageQueue[k].seq

C17_RestartRecovery == []C17_NoResend /\ [][C17_Step]_vars

\* before the restart id 1 was delivered and id 2 was in the queue; the new
\* process was handed both again, skipped the first call and sent and
\* recorded id 2
C17_Witness ==
  /\ restartLog.done
  /\ restartLog.delivered = {1}
  /\ restartLog.pending = {2}
  /\ nCalls = 2
  /\ Len(messageQueue) = 0
  /\ Len(attempts) = 1
  /\ attempts[1].seq = 2
  /\ attempts[1].id = 2
  /\ attempts[1].res = "ok"
  /\ DedupRecord(1)
  /\ DedupRecord(2)

\* C18: no event, and so no event with a message part and no author, is
\* handled with an error that leaves the event handler unhandled, and the
\* process keeps running and handling the events that follow.
C18_NormalizationFailureContained ==
  eventLog # "unhandledRejection" /\ processUp

\* C19: handling an event without a conversation_message ends without an
\* error and without a new_message: the process runs on, and the queue, its
\* sends and both tables of the store are as before.
C19_Step ==
  \A event \in Events :
    (WebhookEvent(event) /\ ~event.hasMessage) =>
      /\ eventLog' = "skip"
      /\ processUp'
      /\ UNCHANGED <<queueVars, storeVars>>

C19_SkipChangesNothing == [][C19_Step]_vars

\* an event without a message part has just been skipped while an entry is in
\* the queue and a row is in the store
C19_Witness ==
  /\ eventLog = "skip"
  /\ processUp
  /\ Len(messageQueue) > 0
  /\ sent_messages # {}

NotificationTypes == MessageTypes \cup {"UNKNOWN"}

HasPreferences(u) == \E r \in user_preferences : r.user_id = u

\* C21: for a user without a row in user_preferences getUserPreferences gives
\* both flags true and shouldNotifyUser is true for every notification type;
\* for every user shouldNotifyUser is true for every type other than
\* NEW_MESSAGE and NEW_CONVERSATION.
C21_DefaultNotify ==
  \A u \in UserIds :
    /\ ~HasPreferences(u) =>
         /\ getUserPreferences(u)
              = [showNewMessages |-> TRUE, showNewConversations |-> TRUE]
         /\ \A t \in NotificationTypes : shouldNotifyUser(u, t)
    /\ \A t \in NotificationTypes \ {"NEW_MESSAGE", "NEW_CONVERSATION"} :
         shouldNotifyUser(u, t)

\* user 1 has switched both classes off and user 2 has no row
C21_Witness ==
  /\ \E r \in user_preferences :
       r.user_id = 1 /\ r.show_new_messages = 0 /\ r.show_new_conversations = 0
  /\ ~HasPreferences(2)
  /\ ~shouldNotifyUser(1, "NEW_MESSAGE")
  /\ shouldNotifyUser(2, "NEW_MESSAGE")

\* C22: an enqueue of an id without a row gets a queue entry, carrying the
\* conversation id of its message, whatever rows other ids of the same
\* conversation have; a row's conversation_id is the one of the message it was
\* written for.
C22_Metadata ==
  \A r \in sent_messages : r.conversation_id = ChatOf(r.message_id).conversationId

C22_Step ==
  \A m \in MsgIds :
    (queueMessage(m) /\ ~DedupRecord(m)) =>
      /\ Len(messageQueue') = Len(messageQueue) + 1
      /\ messageQueue'[Len(messageQueue')].messageId = m
      /\ messageQueue'[Len(messageQueue')].conversationId = ChatOf(m).conversationId

C22_KeyedOnIdOnly == []C22_Metadata /\ [][C22_Step]_vars

\* id 1 was sent and recorded; id 2, of the same conversation, was handed in
\* by the second call and then sent and recorded too
C22_Witness ==
  /\ Len(attempts) = 2
  /\ attempts[1].id = 1 /\ attempts[1].res = "ok"
  /\ attempts[2].id = 2 /\ attempts[2].res = "ok"
  /\ \E r1, r2 \in sent_messages :
       /\ r1.message_id = 1
       /\ r2.message_id = 2
       /\ r1.conversation_id = r2.conversation_id

\* the request carries a raw body and the signature of it under the
\* configured secret
SignatureMatches(req) ==
  /\ req.signature # NoHeader
  /\ req.rawBody # NoBody
  /\ req.signature = Sha1Header(hmac(webhookSecret, req.rawBody))

\* C23: a request to POST /webhook whose X-Hub-Signature is missing or is not
\* the signature of its raw body under the configured secret is answered 401
\* and emits no webhook_event; a request that emits one carries that signature.
C23_Step ==
  (httpLog' # httpLog \/ webhookEvents' # webhookEvents) =>
    LET req == httpLog'.request
    IN /\ ~SignatureMatches(req) =>
            /\ httpLog'.status = 401
            /\ webhookEvents' = webhookEvents
       /\ webhookEvents' # webhookEvents => SignatureMatches(req)

C23_SignatureChecked == [][C23_Step]_vars

\* a request has emitted its event, and the last request, signed under
\* another secret, was answered 401
C23_Witness ==
  /\ Len(webhookEvents) = 1
  /\ httpLog.status = 401
  /\ httpLog.request.rawBody # NoBody
  /\ httpLog.request.signature = Sha1Header(hmac(2, httpLog.request.rawBody))

\* the key is in the processed set
Remembered(key) == \E k \in 1..Len(processedEvents) : processedEvents[k] = key

\* the emissions of the polling transport made by this step
NewPolledEvents ==
  {webhookEvents'[k] : k \in (Len(webhookEvents) + 1)..Len(webhookEvents')}

\* C24: a step of the polling transport emits no webhook_event for a request
\* whose uuid, or whose event id, is in the processed set, also when the poll
\* it belongs to overlapped another one that received the same list; no two
\* emissions are of the same request uuid or of the same event id (nothing is
\* forgotten below PROCESSED_KEEP members).
C24_AtMostOnce ==
  \A i, j \in 1..Len(webhookEvents) :
    i < j =>
      /\ webhookEvents[i].uuid # webhookEvents[j].uuid
      /\ webhookEvents[i].id # webhookEvents[j].id

C24_Step ==
  \A e \in NewPolledEvents :
    /\ ~Remembered(UuidKey(e.uuid))
    /\ ~Remembered(EventKey(e.id))

C24_InboundDedup == []C24_AtMostOnce /\ [][C24_Step]_vars

\* a poll that overlapped another one got the same list as that one, which
\* holds the request that was emitted, and a later request with the same
\* event id was polled too: one emission
C24_Witness ==
  /\ pollLog.repeated
  /\ Len(webhookEvents) = 1
  /\ \E k \in 1..Len(pollLog.last) : pollLog.last[k].uuid = webhookEvents[1].uuid
  /\ \E k \in 1..Len(inbox) :
       /\ k # webhookEvents[1].uuid
       /\ k <= lastTokenId
       /\ inbox[k].kind = "notification_event"
       /\ inbox[k].hasParts
       /\ inbox[k].id = webhookEvents[1].id

\* C25: when a send gets a transient failure that leaves the entry at the head
\* (its retryCount stays below MAX_RETRIES), the drain makes no send attempt in
\* the step that handles the failure: the next attempt on the entry waits until
\* RETRY_DELAY has elapsed.
C25_NoBusyLoop ==
  [][\A d \in Drains :
       (/\ Respond(d, Transient)
        /\ HeadItem(messageQueue).seq = drains[d].item
        /\ HeadItem(messageQueue).retryCount + 1 < MAX_RETRIES)
         => ~NewAttempt]_vars

\* a drain is in its inter-message delay and the delay has time left
Delaying == \E d \in Drains : drains[d].pc = "delay" /\ drains[d].due > 0

\* C26: the step that handles a success removes the head, writes its dedup
\* record and puts the drain into a delay of RETRY_DELAY with the draining flag
\* still set; while the delay has time left no send attempt is made and no
\* other drain leaves idle; when the delay is over the same drain, in the same
\* pass, attempts the next head or ends on the empty queue.
C26_Success ==
  \A d \in Drains :
    Respond(d, Ok) =>
      /\ HeadItem(messageQueue).seq = drains[d].item
      /\ messageQueue' = Tail(messageQueue)
      /\ \E r \in sent_messages' : r.message_id = HeadItem(messageQueue).messageId
      /\ drains'[d].pc = "delay"
      /\ drains'[d].due = RETRY_DELAY
      /\ processingQueue'
      /\ ~NewAttempt

C26_Quiet ==
  Delaying =>
    /\ ~NewAttempt
    /\ \A d \in Drains : drains[d].pc = "idle" => drains'[d].pc = "idle"

C26_Continue ==
  \A d \in Drains :
    DelayDone(d) =>
      IF messageQueue = <<>>
        THEN drains'[d].pc = "idle" /\ ~processingQueue'
        ELSE /\ NewAttempt
             /\ attempts'[Len(attempts')].seq = HeadItem(messageQueue).seq
             /\ drains'[d].pc = "sending"

C26_SuccessThenDelay ==
  [][C26_Success /\ C26_Quiet /\ C26_Continue]_vars

\* without a timer or a wake-up, one drain has sent an entry with success,
\* waited for the delay while a second entry was in the queue, and then made
\* the send attempt of the second entry
C26_Witness ==
  /\ ~timerOn
  /\ wakeups = EmptyBag
  /\ Len(attempts) = 2
  /\ attempts[1].res = "ok"
  /\ attempts[2].seq # attempts[1].seq
  /\ attempts[2].res = "pending"
  /\ drains[1].pc = "sending"
  /\ drains[1].att = 2
  /\ \A d \in Drains \ {1} : drains[d].pc = "idle"

\* C27, on finite runs: an entry leaves the queue by the time it has received
\* MAX_RETRIES answers other than RateLimited, whatever they are (success and
\* format rejection remove it at once, every other failure counts toward
\* MAX_RETRIES), so that once the destination stops answering RateLimited
\* every entry leaves after at most MAX_RETRIES further sends.
C27_EveryEntryLeaves ==
  \A s \in 1..nCalls :
    InQueue(s) =>
      Cardinality({i \in AttemptsOfEntry(s) :
                     attempts[i].res \notin {"pending", "rateLimited"}}) < MAX_RETRIES

\* the answers that make sendNotification throw
FailureAnswers == {a \in Answers : a.res # "ok"}

\* C28: whatever failure a send attempt or markAsSent ends with, the step
\* that handles it leaves the drain either at its next send with the draining
\* flag set, or ended with the flag cleared, leaves the other drains and the
\* process as they are; at every time the flag is set exactly while a drain
\* is in a pass, so it is false after a pass has ended by an empty queue, a
\* blocked head or a rate limit.
C28_Flag == processingQueue <=> \E d \in Drains : drains[d].pc # "idle"

C28_Step ==
  \A d \in Drains, ans \in FailureAnswers :
    Respond(d, ans) =>
      /\ \/ drains'[d].pc = "sending" /\ processingQueue'
         \/ drains'[d] = IdleDrain /\ ~processingQueue'
      /\ \A e \in Drains \ {d} : drains'[e] = drains[e]
      /\ processUp'

C28_FailuresStayInside == []C28_Flag /\ [][C28_Step]_vars

\* an entry has had a transient failure, a storage failure and a rate limit,
\* the pass has ended on the rate limit, and the flag is false with the entry
\* still in the queue
C28_Witness ==
  /\ Len(attempts) = 3
  /\ attempts[1].res = "transient"
  /\ attempts[2].res = "storeFail"
  /\ attempts[3].res = "rateLimited"
  /\ Len(messageQueue) = 1
  /\ ~processingQueue
  /\ \A d \in Drains : drains[d] = IdleDrain

\* the failed sends that are neither a rate limit with a duration nor a
\* format rejection
OtherFailures ==
  {[res |-> "transient", wait |-> 0], [res |-> "nonError", wait |-> 0],
   [res |-> "rate429NoDuration", wait |-> 0]}

\* C29: a failed send that is neither a rate limit with a parsable duration
\* nor a format rejection, whatever value was thrown, adds exactly one to the
\* retryCount of the head entry: the entry stays with retryCount one higher, or
\* it is removed because the count has reached MAX_RETRIES.
C29_EveryOtherFailureCounts ==
  [][\A d \in Drains, ans \in OtherFailures :
       Respond(d, ans) =>
         LET item == HeadItem(messageQueue)
         IN IF StillInQueue(item.seq)
              THEN ItemOf(messageQueue', item.seq).retryCount = item.retryCount + 1
              ELSE item.retryCount + 1 = MAX_RETRIES]_vars

\* C30: a call of queueMessage for an id without a row, made while a drain is
\* active (in a send or in the delay), appends the entry and leaves the drains
\* and the sends as they are; a drain never ends while the queue has a head
\* that is not blocked, so the entry is attempted by the steps of the active
\* drain itself, with no timer tick needed.
C30_Appended ==
  \A m \in MsgIds :
    (queueMessage(m) /\ processingQueue /\ ~DedupRecord(m)) =>
      /\ Len(messageQueue') = Len(messageQueue) + 1
      /\ SubSeq(messageQueue', 1, Len(messageQueue)) = messageQueue
      /\ messageQueue'[Len(messageQueue')].messageId = m
      /\ drains' = drains
      /\ attempts' = attempts
      /\ processingQueue'

C30_NoEarlyEnd ==
  \A d \in Drains :
    (drains[d].pc # "idle" /\ drains'[d].pc = "idle") =>
      \/ messageQueue' = <<>>
      \/ HeadItem(messageQueue').retryAfter > 0

C30_NoLostWakeUp == [][C30_Appended /\ C30_NoEarlyEnd]_vars

\* without a timer or a wake-up: the drain that sent the first entry is at the
\* send of the second one, and the third entry, enqueued while the drain was
\* active, waits behind it
C30_Witness ==
  /\ ~timerOn
  /\ wakeups = EmptyBag
  /\ Len(attempts) = 2
  /\ attempts[1].seq = 1 /\ attempts[1].res = "ok"
  /\ attempts[2].seq = 2 /\ attempts[2].res = "pending"
  /\ Len(messageQueue) = 2
  /\ messageQueue[1].seq = 2
  /\ messageQueue[2].seq = 3
  /\ Cardinality({d \in Drains : drains[d].pc # "idle"}) = 1

\* the send attempt this step makes is of the entry that is the head after it
AttemptsHead ==
  /\ NewAttempt
  /\ attempts'[Len(attempts')].seq = HeadItem(messageQueue').seq
  /\ processingQueue'

\* C31: a call of queueMessage that enqueues while no drain is active starts
\* a drain in the same step, which attempts the head when the head has no wait
\* left; a timer tick that finds a non-empty queue and no drain active does
\* the same; a timer tick or a wake-up on an empty queue changes no entry, no
\* drain and no send.
C31_Enqueue ==
  \A m \in MsgIds :
    (queueMessage(m) /\ ~processingQueue /\ ~DedupRecord(m)) =>
      /\ Len(messageQueue') = Len(messageQueue) + 1
      /\ HeadItem(messageQueue').retryAfter = 0 => AttemptsHead

C31_Tick ==
  (TimerTick /\ ~processingQueue /\ messageQueue # <<>>) =>
    IF HeadItem(messageQueue).retryAfter = 0
      THEN AttemptsHead
      ELSE wakeups' = wakeups (+) SetToBag({HeadItem(messageQueue).retryAfter})

C31_Empty ==
  ((TimerTick \/ WakeUp) /\ messageQueue = <<>>) =>
    UNCHANGED <<messageQueue, processingQueue, drains, attempts, sent_messages>>

C31_DrainTriggers == [][C31_Enqueue /\ C31_Tick /\ C31_Empty]_vars

\* an entry was sent once and rate limited, its wait is over, and the timer
\* tick, with no wake-up ever scheduled and no second call of queueMessage,
\* has started the drain that sends it again
C31_Witness ==
  /\ nCalls = 1
  /\ timerOn
  /\ timerLeft = SetToBag({QUEUE_CHECK_INTERVAL})
  /\ wakeups = EmptyBag
  /\ Len(attempts) = 2
  /\ attempts[1].res = "rateLimited"
  /\ attempts[2].res = "pending"
  /\ processingQueue

\* what one call with this body may emit: the source for the topic
\* conversation.user.created, otherwise the first conversation part,
\* otherwise nothing
OneEventOf(body) ==
  IF body.type # "notification_event" THEN <<>>
  ELSE IF body.topic = "conversation.user.created" /\ body.hasSource
    THEN <<[uuid |-> 0, id |-> body.id, from |-> "source"]>>
  ELSE IF body.hasParts
    THEN <<[uuid |-> 0, id |-> body.id, from |-> "conversation_parts"]>>
  ELSE <<>>

\* C32: one call of POST /webhook that passes the signature check adds to the
\* emitted webhook_events at most one event, the source for a
\* conversation-created topic, otherwise the first conversation part,
\* otherwise nothing; one webhook_event handed to the normalizer leads to at
\* most one new_message, hence at most one call of queueMessage.
C32_Transport ==
  (httpLog' # httpLog \/ webhookEvents' # webhookEvents) =>
    /\ Len(webhookEvents') <= Len(webhookEvents) + 1
    /\ webhookEvents' = webhookEvents \o OneEventOf(httpLog'.request.rawBody)

C32_Normalizer ==
  /\ nCalls' \in {nCalls, nCalls + 1}
  /\ nCalls' = nCalls + 1 => eventLog' = "new_message"
  /\ (eventLog' = "new_message" /\ eventLog # "new_message") => nCalls' = nCalls + 1
  /\ Len(messageQueue') <= Len(messageQueue) + 1

C32_AtMostOneEvent == [][C32_Transport /\ C32_Normalizer]_vars

\* a signed call whose body has both a source and conversation parts has
\* emitted the source alone, and one event has gone through the normalizer as
\* one message
C32_Witness ==
  /\ Len(webhookEvents) = 1
  /\ webhookEvents[1].from = "source"
  /\ httpLog.status = 200
  /\ httpLog.request.rawBody.hasSource
  /\ httpLog.request.rawBody.hasParts
  /\ eventLog = "new_message"
  /\ nCalls = 1

IsPrefix(prefix, text) ==
  /\ Len(prefix) <= Len(text)
  /\ \A i \in 1..Len(prefix) :
       IF i < Len(prefix)
       THEN prefix[i] = text[i]
       ELSE prefix[i].ch = text[i].ch /\ prefix[i].n <= text[i].n

\* C33: a body of at most MAX_MESSAGE_LENGTH (3000) characters after the
\* stripping of the markup is the cleaned body as it is; a longer one becomes
\* its first 3000 characters and the marker '...'; the cleaned body is never
\* longer than 3003 characters.
C33_BodyTruncation ==
  sanitized.called # "none" =>
    LET clean == sanitized.cleanMessage
        out == sanitized.cleanedMessage
        kept == SubSeq(out, 1, Len(out) - 1)
    IN /\ \A i \in 1..Len(clean) : clean[i].ch \notin {"<b>", "\\."}
       /\ length(clean) <= MAX_MESSAGE_LENGTH => out = clean
       /\ length(clean) > MAX_MESSAGE_LENGTH =>
            /\ out # <<>>
            /\ out[Len(out)] = [ch |-> ".", n |-> 3]
            /\ IsPrefix(kept, clean)
            /\ length(kept) = MAX_MESSAGE_LENGTH
       /\ length(out) <= MAX_MESSAGE_LENGTH + 3

\* a body with a tag whose text is one character too long was cut
C33_Witness ==
  /\ sanitized.called = "escaping"
  /\ \E i \in 1..Len(raw) : raw[i].ch = "<b>"
  /\ length(sanitized.cleanMessage) = MAX_MESSAGE_LENGTH + 1
  /\ length(sanitized.cleanedMessage) = MAX_MESSAGE_LENGTH + 3

\* the sends of entry s that the destination accepted
SuccessfulSends(s) ==
  {i \in AttemptsOfEntry(s) : attempts[i].res \in {"ok", "storeFail"}}

StoreFailures(s) == {i \in AttemptsOfEntry(s) : attempts[i].res = "storeFail"}

\* C34: no queue entry is sent successfully more than MAX_RETRIES times, also
\* when markAsSent throws after every successful send; an entry whose
\* MAX_RETRIES-th successful send was followed by such a failure is no longer
\* in the queue, and its failures have written no row: its id has a row only
\* if some send of that id ended with a row.
C34_BoundedDuplicates ==
  \A k \in 1..Len(attempts) :
    LET s == attempts[k].seq
    IN /\ Cardinality(SuccessfulSends(s)) <= MAX_RETRIES
       /\ Cardinality(StoreFailures(s)) = MAX_RETRIES =>
            /\ ~InQueue(s)
            /\ SuccessfulSends(s) = StoreFailures(s)
            /\ DedupRecord(attempts[k].id) =>
                 \E i \in AttemptsOf(attempts[k].id) : attempts[i].res = "ok"

\* an entry that was rate limited once and then sent successfully three times,
\* the store failing each time: it is gone and has no row
C34_Witness ==
  \E k \in 1..Len(attempts) :
    LET s == attempts[k].seq
    IN /\ attempts[k].res = "rateLimited"
       /\ Cardinality(StoreFailures(s)) = MAX_RETRIES
       /\ ~InQueue(s)
       /\ ~DedupRecord(attempts[k].id)

NoSendInFlight == \A d \in Drains : drains[d].pc # "sending"

\* C35: in every state in which no send is in flight every entry of the queue
\* has 0 <= retryCount < MAX_RETRIES; and an entry whose retryCount reaches
\* MAX_RETRIES is removed in the step that raises it, so that no state at all
\* shows an entry with that count.
C35_RetryCounterRange ==
  /\ NoSendInFlight =>
       \A k \in 1..Len(messageQueue) :
         0 <= messageQueue[k].retryCount /\ messageQueue[k].retryCount < MAX_RETRIES
  /\ \A k \in 1..Len(messageQueue) : messageQueue[k].retryCount # MAX_RETRIES

\* no send is in flight and the head, rate limited after two failed tries,
\* waits with the highest count an entry can show
C35_Witness ==
  /\ NoSendInFlight
  /\ Len(messageQueue) > 0
  /\ messageQueue[1].retryCount = MAX_RETRIES - 1
  /\ messageQueue[1].retryAfter > 0

\* the row of m is gone although a send of m was recorded: a sweep removed it
Swept(m) ==
  /\ \E i \in AttemptsOf(m) : attempts[i].res = "ok"
  /\ ~DedupRecord(m)

\* C36: once a sweep has removed the row of m, hasBeenSent(m) is false and a
\* call of queueMessage for m appends a new entry for m with retryCount 0; when
\* no drain is active the call makes the send attempt for the head of the queue
\* itself, which is the new entry when the queue was empty; and the entry
\* leaves the queue only by the answer to a send of its own, so m is sent a
\* second time.
C36_Enqueue ==
  \A m \in MsgIds :
    Swept(m) /\ queueMessage(m) =>
      /\ ~hasBeenSent(m)
      /\ Len(messageQueue') = Len(messageQueue) + 1
      /\ messageQueue'[Len(messageQueue')].messageId = m
      /\ messageQueue'[Len(messageQueue')].seq = nCalls'
      /\ messageQueue'[Len(messageQueue')].retryCount = 0
      /\ ~processingQueue =>
           /\ NewAttempt
           /\ attempts'[Len(attempts')].seq = HeadItem(messageQueue').seq
           /\ Len(messageQueue) = 0 => attempts'[Len(attempts')].id = m

C36_Leave ==
  \A k \in 1..Len(messageQueue) :
    ~StillInQueue(messageQueue[k].seq) =>
      \E i \in AttemptsOfEntry(messageQueue[k].seq) : attempts'[i].res = "ok"

C36_DedupOnlyInsideWindow == [][C36_Enqueue /\ C36_Leave]_vars

\* m was delivered, refused at its second enqueue while its row was there,
\* accepted at its third after the sweep, and delivered a second time
C36_Witness ==
  /\ nCalls = 3
  /\ Len(attempts) = 2
  /\ \A i \in 1..2 : attempts[i].id = 1 /\ attempts[i].res = "ok"
  /\ attempts[1].seq = 1
  /\ attempts[2].seq = 3
  /\ storeLog.op = "cleanup"
  /\ storeLog.gone = 1
  /\ Len(messageQueue) = 0

\* entry s was attempted and is out of the queue with no accepted send: it was
\* removed by a format rejection or because its retries were exhausted
Dropped(s) ==
  /\ AttemptsOfEntry(s) # {}
  /\ ~InQueue(s)
  /\ \A i \in AttemptsOfEntry(s) : attempts[i].res \notin {"ok", "pending"}

NeverDelivered(m) == \A i \in AttemptsOf(m) : attempts[i].res # "ok"

\* C37: the step that removes an entry by a format rejection or by retry
\* exhaustion leaves the table of sent messages as it is, so an id whose
\* sends were all dropped has no row; a later call of queueMessage for that id
\* appends a new entry with retryCount 0, and the call makes the send attempt
\* when no drain is active and the head is not blocked.
C37_NoRow == \A m \in MsgIds : NeverDelivered(m) => ~DedupRecord(m)

C37_Drop ==
  \A k \in 1..Len(messageQueue) :
    (/\ ~StillInQueue(messageQueue[k].seq)
     /\ \A i \in AttemptsOfEntry(messageQueue[k].seq) : attempts'[i].res # "ok")
      => sent_messages' = sent_messages

C37_Again ==
  \A m \in MsgIds :
    (/\ queueMessage(m)
     /\ NeverDelivered(m)
     /\ \E i \in AttemptsOf(m) : Dropped(attempts[i].seq))
      => /\ Len(messageQueue') = Len(messageQueue) + 1
         /\ messageQueue'[Len(messageQueue')] =
              NewItem(ChatOf(m), "NEW_MESSAGE", nCalls')
         /\ (~processingQueue /\ HeadItem(messageQueue').retryAfter = 0) =>
              /\ NewAttempt
              /\ attempts'[Len(attempts')].seq = HeadItem(messageQueue').seq
              /\ Len(messageQueue) = 0 => attempts'[Len(attempts')].id = m

C37_DropWritesNoRecord == []C37_NoRow /\ [][C37_Drop /\ C37_Again]_vars

\* the entry of id 1 was dropped after three failed tries; the id was enqueued
\* again and its new entry had its own send attempt
C37_Witness ==
  /\ Len(attempts) = 4
  /\ \A i \in 1..3 : attempts[i].seq = 1 /\ attempts[i].res = "transient"
  /\ attempts[4].id = 1
  /\ attempts[4].seq # 1
  /\ ~DedupRecord(1)

\* C38: while the head entry waits on a rate-limit backoff at most one
\* wake-up of the drain is scheduled, whatever ticks and enqueues happen
\* during the backoff.
C38_AtMostOneWakeUp == HeadBlocked => BagCardinality(wakeups) <= 1

\* C39: whatever calls of connect and disconnect are made on the bot, at most
\* one interval timer of its QueueManager is active.
C39_OneProcessor == BagCardinality(timerLeft) <= 1

\* the entries of queue q by what identifies them, in order
Entries(q) == [k \in 1..Len(q) |-> [seq |-> q[k].seq, messageId |-> q[k].messageId]]

\* C40: in every state every entry behind the head has retryCount 0 and no
\* retryAfter; and every step leaves the entries of the queue as they are,
\* appends one entry at the tail, or removes the head.
C40_OnlyHead ==
  \A k \in 2..Len(messageQueue) :
    messageQueue[k].retryCount = 0 /\ messageQueue[k].retryAfter = 0

C40_Step ==
  \/ Entries(messageQueue') = Entries(messageQueue)
  \/ /\ Len(messageQueue') = Len(messageQueue) + 1
     /\ SubSeq(Entries(messageQueue'), 1, Len(messageQueue)) = Entries(messageQueue)
  \/ /\ Len(messageQueue) > 0
     /\ Entries(messageQueue') = Tail(Entries(messageQueue))

C40_RetryStateAtHead == []C40_OnlyHead /\ [][C40_Step]_vars

\* the head has failed a try and waits on a rate limit while a second entry,
\* untouched, stands behind it
C40_Witness ==
  /\ Len(messageQueue) >= 2
  /\ messageQueue[1].retryCount > 0
  /\ messageQueue[1].retryAfter > 0
  /\ messageQueue[2].retryCount = 0

====
